---- MODULE Spec2Model ----
(***************************************************************************)
(* Signal validation and order sizing pipeline of the trading webhook      *)
(* (src/api/trading.py): the permission filter, the trader's sizing,       *)
(* precision and leverage steps, the exchange calls they issue, and the    *)
(* records and the response the webhook handler produces.                  *)
(*                                                                         *)
(* Strings are sequences of one-character strings, so that strip, lower,   *)
(* split and replace are computed character by character.  Quantities are  *)
(* integers counted in units of 10^-UnitExp; a decimal literal such as     *)
(* "0.001" is the pair (coefficient, exponent) Python's Decimal keeps.     *)
(***************************************************************************)
EXTENDS Integers, Sequences, FiniteSets, TLC

\* Resolution of the modelled decimals: one unit is 10^-UnitExp.
UnitExp == 5
\* Alert quantities range over k * 0.0005 for k in 0..MaxQtyK (plus a few large ones).
MaxQtyK == 5

(***************************************************************************)
(* Python values                                                           *)
(***************************************************************************)
\* None in a string-valued field (a missing key, or JSON null).
None == <<"None">>
\* A truthy JSON value that is no string (a number, a list): it has no
\* .strip(), .lower() or .replace().
NonStr == <<"NonStr">>
\* str(Decimal("Infinity")) as formatted by f"{x:.3f}".
InfinityStr == <<"Infinity">>

IsStr(v) == v \notin {None, NonStr}
\* Python truthiness of a string-valued field.
Truthy(v) == v # None /\ v # <<>>
\* (v or "")
OrEmpty(v) == IF Truthy(v) THEN v ELSE <<>>

\* Numbers: a float (or a value float() is applied to) is a tagged record.
\*   "num": the finite value v;  "inf": float("inf");
\*   "none": None;  "bad": a value float() rejects with ValueError/TypeError.
Num(n) == [k |-> "num", v |-> n]
NoneN == [k |-> "none", v |-> 0]
InfN == [k |-> "inf", v |-> 0]
BadN == [k |-> "bad", v |-> 0]
IsNum(x) == x.k = "num"
\* float(x) succeeds
Floatable(x) == x.k \in {"num", "inf"}

\* Decimal(coef * 10^exp), as Decimal("0.001") = (1, -3) and Decimal("1000") = (1000, 0).
Dec(c, e) == [coef |-> c, exp |-> e]
\* The value of a decimal literal in units of 10^-UnitExp.
Units(d) ==
    IF UnitExp + d.exp >= 0
    THEN d.coef * 10 ^ (UnitExp + d.exp)
    ELSE d.coef \div 10 ^ (0 - (UnitExp + d.exp))

SetMin(S) == CHOOSE x \in S : \A y \in S : x <= y
SetMax(S) == CHOOSE x \in S : \A y \in S : x >= y
Abs(n) == IF n < 0 THEN 0 - n ELSE n

(***************************************************************************)
(* str methods                                                             *)
(***************************************************************************)
LowerLetters == <<"a","b","c","d","e","f","g","h","i","j","k","l","m",
                  "n","o","p","q","r","s","t","u","v","w","x","y","z">>
UpperLetters == <<"A","B","C","D","E","F","G","H","I","J","K","L","M",
                  "N","O","P","Q","R","S","T","U","V","W","X","Y","Z">>
Digits == <<"0","1","2","3","4","5","6","7","8","9">>

Range(s) == {s[i] : i \in DOMAIN s}
IndexOf(c, s) == CHOOSE i \in DOMAIN s : s[i] = c

\* str.isalpha() of one character
IsAlpha(c) == c \in Range(LowerLetters) \cup Range(UpperLetters)
LowerCh(c) == IF c \in Range(UpperLetters) THEN LowerLetters[IndexOf(c, UpperLetters)] ELSE c
UpperCh(c) == IF c \in Range(LowerLetters) THEN UpperLetters[IndexOf(c, LowerLetters)] ELSE c
\* str.lower(), str.upper()
Lower(s) == [i \in DOMAIN s |-> LowerCh(s[i])]
Upper(s) == [i \in DOMAIN s |-> UpperCh(s[i])]
\* str.strip()
Strip(s) ==
    LET keep == {i \in DOMAIN s : s[i] # " "}
    IN IF keep = {} THEN <<>> ELSE SubSeq(s, SetMin(keep), SetMax(keep))
\* c in s
Contains(s, c) == c \in Range(s)
FirstIndex(s, c) == SetMin({i \in DOMAIN s : s[i] = c})
\* s.split(c, 1)[1] and s.split(c, 1)[0], for c in s
AfterFirst(s, c) == SubSeq(s, FirstIndex(s, c) + 1, Len(s))
BeforeFirst(s, c) == SubSeq(s, 1, FirstIndex(s, c) - 1)
\* s.endswith(suf)
EndsWith(s, suf) ==
    /\ Len(suf) <= Len(s)
    /\ SubSeq(s, Len(s) - Len(suf) + 1, Len(s)) = suf
\* s.replace(pat, ""): every non-overlapping occurrence, left to right
RECURSIVE RemoveAll(_, _)
RemoveAll(s, pat) ==
    IF Len(s) < Len(pat) \/ Len(pat) = 0 THEN s
    ELSE IF SubSeq(s, 1, Len(pat)) = pat
         THEN RemoveAll(SubSeq(s, Len(pat) + 1, Len(s)), pat)
         ELSE <<s[1]>> \o RemoveAll(Tail(s), pat)

\* str(n) for a natural number n
RECURSIVE IntStr(_)
IntStr(n) == IF n < 10 THEN <<Digits[n + 1]>> ELSE IntStr(n \div 10) \o <<Digits[(n % 10) + 1]>>

(***************************************************************************)
(* Symbol normalisation and the three permission checks                    *)
(***************************************************************************)
QuoteSuffixes == << <<"U","S","D","T">>, <<"U","S","D">>, <<"P","E","R","P">>, <<"U","S","D","C">> >>

\* for suffix in (...): if cleaned.endswith(suffix): strip it; break
StripQuoteSuffix(cleaned) ==
    LET hits == {i \in DOMAIN QuoteSuffixes : EndsWith(cleaned, QuoteSuffixes[i])}
    IN IF hits = {} THEN cleaned
       ELSE SubSeq(cleaned, 1, Len(cleaned) - Len(QuoteSuffixes[SetMin(hits)]))

\* _normalise_symbol(symbol), for None or a string
_normalise_symbol(symbol) ==
    IF ~Truthy(symbol) THEN <<>>
    ELSE LET c1 == Upper(Strip(symbol))
             c2 == IF Contains(c1, ":") THEN AfterFirst(c1, ":") ELSE c1
             c3 == IF Contains(c2, ".") THEN BeforeFirst(c2, ".") ELSE c2
             c4 == SelectSeq(c3, LAMBDA ch : ch # "_")
             c5 == StripQuoteSuffix(c4)
         IN SelectSeq(c5, IsAlpha)

\* One reason/outcome of a check: (allowed, reason), or an AttributeError raised
\* by a str method called on a non-string value.  reason "" is None.
Allow == [raises |-> FALSE, allowed |-> TRUE, reason |-> ""]
Deny(msg) == [raises |-> FALSE, allowed |-> FALSE, reason |-> msg]
Raise == [raises |-> TRUE, allowed |-> FALSE, reason |-> ""]

BUY == <<"b","u","y">>
SELL == <<"s","e","l","l">>

\* _strategy_allows_execution(signal_strategy), given what _load_preference_data
\* returned: loaded.pref is <<>> (None) or <<preference_data>>, loaded.error "" or
\* the load error.
_strategy_allows_execution(signal_strategy, loaded) ==
    IF loaded.error # "" THEN Deny(loaded.error)
    ELSE LET selected_strategy == Strip(OrEmpty(loaded.pref[1].strategy))
         IN IF OrEmpty(signal_strategy) = NonStr THEN Raise
            ELSE LET incoming == Strip(OrEmpty(signal_strategy))
                 IN IF selected_strategy = <<>>
                          THEN Deny("No strategy selected in control panel")
                    ELSE IF incoming = <<>>
                          THEN Deny("Signal missing strategy value")
                    ELSE IF Lower(incoming) # Lower(selected_strategy)
                          THEN Deny("Strategy mismatch")
                    ELSE Allow

\* Faulty variant of _direction_allows_action: the action is compared as sent,
\* without .lower().
_direction_allows_action_CaseSensitive(action, preference) ==
    IF preference = <<>> THEN Allow
    ELSE LET direction_mode == preference[1].direction_mode
         IN IF direction_mode = "" \/ direction_mode = "allow_long_short" THEN Allow
            ELSE IF ~Truthy(action) THEN Deny("Signal missing action value")
            ELSE IF action = NonStr THEN Raise
            ELSE IF direction_mode = "allow_long_only" /\ action # BUY
                 THEN Deny("Blocked short signal: long-only mode enabled")
            ELSE IF direction_mode = "allow_short_only" /\ action # SELL
                 THEN Deny("Blocked long signal: short-only mode enabled")
            ELSE Allow

\* Faulty variant of _direction_allows_action: the short-only branch is missing.
_direction_allows_action_ShortOnlyUnchecked(action, preference) ==
    IF preference = <<>> THEN Allow
    ELSE LET direction_mode == preference[1].direction_mode
         IN IF direction_mode = "" \/ direction_mode = "allow_long_short" THEN Allow
            ELSE IF ~Truthy(action) THEN Deny("Signal missing action value")
            ELSE IF action = NonStr THEN Raise
            ELSE IF direction_mode = "allow_long_only" /\ Lower(action) # BUY
                 THEN Deny("Blocked short signal: long-only mode enabled")
            ELSE Allow

\* _direction_allows_action(action, preference).  direction_mode is "" (None) or
\* one of DIRECTION_OPTIONS, all lower case already (validate_direction), so
\* .lower() leaves it as stored.
_direction_allows_action(action, preference) ==
    IF preference = <<>> THEN Allow
    ELSE LET direction_mode == preference[1].direction_mode
         IN IF direction_mode = "" \/ direction_mode = "allow_long_short" THEN Allow
            ELSE IF ~Truthy(action) THEN Deny("Signal missing action value")
            ELSE IF action = NonStr THEN Raise
            ELSE IF direction_mode = "allow_long_only" /\ Lower(action) # BUY
                 THEN Deny("Blocked short signal: long-only mode enabled")
            ELSE IF direction_mode = "allow_short_only" /\ Lower(action) # SELL
                 THEN Deny("Blocked long signal: short-only mode enabled")
            ELSE Allow

\* _product_allows_symbol(symbol, preference)
_product_allows_symbol(symbol, preference) ==
    IF preference = <<>> THEN Allow
    ELSE LET selected_product == Strip(OrEmpty(preference[1].product))
         IN IF selected_product = <<>> THEN Allow
            ELSE IF symbol = NonStr THEN Raise
            ELSE LET incoming_base == _normalise_symbol(symbol)
                 IN IF incoming_base = <<>> THEN Deny("Signal missing tradable symbol")
                    ELSE IF Lower(incoming_base) # Lower(selected_product)
                         THEN Deny("Product mismatch")
                    ELSE Allow

\* bool(data): the payload has at least one key.  Only the six keys the pipeline
\* reads are modelled.
IsEmptyData(data) ==
    /\ data.action = None /\ data.symbol = None /\ data.strategy = None
    /\ data.quantity = NoneN /\ data.price = NoneN /\ data.time = NoneN

\* float(x) guarded by except (TypeError, ValueError): the value or None
CleanFloat(x) == IF Floatable(x) THEN x ELSE NoneN

\* Faulty variant of AllowExecution: the direction check's verdict is left out
\* of the conjunction.
AllowExecution_SkipDirection(data, has_client, strategy, direction, product) ==
    /\ ~IsEmptyData(data)
    /\ has_client
    /\ strategy.allowed
    /\ product.allowed

\* allow_execution of _validate_signal_permissions
AllowExecution(data, has_client, strategy, direction, product) ==
    /\ ~IsEmptyData(data)
    /\ has_client
    /\ strategy.allowed
    /\ direction.allowed
    /\ product.allowed

\* "; ".join(messages): the messages with "; " between neighbours
RECURSIVE JoinMessages(_)
JoinMessages(messages) ==
    IF Len(messages) <= 1 THEN messages
    ELSE <<messages[1], "; ">> \o JoinMessages(Tail(messages))

\* _validate_signal_permissions(data): the three checks are all evaluated, then
\* the prices, the decision and the joined message.  ignore_message is the
\* non-empty reasons joined with "; " (a sequence of text pieces); <<>> is None.
_validate_signal_permissions(data, loaded, has_client) ==
    LET strategy == _strategy_allows_execution(data.strategy, loaded)
        direction == _direction_allows_action(data.action, loaded.pref)
        product == _product_allows_symbol(data.symbol, loaded.pref)
        reasons == <<strategy.reason, direction.reason, product.reason>>
    IN [raises |-> strategy.raises \/ direction.raises \/ product.raises,
        allow_execution |-> AllowExecution(data, has_client, strategy, direction, product),
        ignore_message |-> JoinMessages(SelectSeq(reasons, LAMBDA m : m # "")),
        preference |-> loaded.pref,
        clean_price |-> CleanFloat(data.price),
        clean_quantity |-> CleanFloat(data.quantity),
        signal_strategy |-> data.strategy]

(***************************************************************************)
(* BinanceTrader: validation, leverage, sizing, precision                  *)
(***************************************************************************)
BINANCE_PREFIX == <<"B","I","N","A","N","C","E",":">>
DOT_P == <<".","P">>

\* Faulty variant of _validate_signal_data: a quantity that float() rejects is
\* taken as zero instead of ending the request.
_validate_signal_data_QuantityOptional(signal_data) ==
    LET symbol_raw == OrEmpty(signal_data.symbol)
        stripped == RemoveAll(symbol_raw, BINANCE_PREFIX)
        symbol == IF EndsWith(stripped, DOT_P)
                  THEN SubSeq(stripped, 1, Len(stripped) - 2) ELSE stripped
        ok(err) == [raises |-> FALSE, error |-> err,
                    action |-> IF IsStr(signal_data.action) THEN Lower(signal_data.action) ELSE <<>>,
                    symbol |-> IF IsStr(symbol_raw) THEN symbol ELSE <<>>,
                    base_quantity |-> IF IsNum(signal_data.quantity)
                                      THEN Num(Abs(signal_data.quantity.v))
                                      ELSE IF Floatable(signal_data.quantity)
                                      THEN signal_data.quantity ELSE Num(0)]
    IN IF ~Truthy(signal_data.action) THEN ok("Missing action")
       ELSE IF signal_data.action = NonStr \/ symbol_raw = NonStr
            THEN [ok("") EXCEPT !.raises = TRUE]
       ELSE ok("")

\* BinanceTrader._validate_signal_data(signal_data)
_validate_signal_data(signal_data) ==
    LET symbol_raw == OrEmpty(signal_data.symbol)
        stripped == RemoveAll(symbol_raw, BINANCE_PREFIX)
        symbol == IF EndsWith(stripped, DOT_P)
                  THEN SubSeq(stripped, 1, Len(stripped) - 2) ELSE stripped
        ok(err) == [raises |-> FALSE, error |-> err,
                    action |-> IF IsStr(signal_data.action) THEN Lower(signal_data.action) ELSE <<>>,
                    symbol |-> IF IsStr(symbol_raw) THEN symbol ELSE <<>>,
                    base_quantity |-> IF IsNum(signal_data.quantity)
                                      THEN Num(Abs(signal_data.quantity.v))
                                      ELSE signal_data.quantity]
    IN IF ~Truthy(signal_data.action) THEN ok("Missing action")
       ELSE IF signal_data.action = NonStr \/ symbol_raw = NonStr
            THEN [ok("") EXCEPT !.raises = TRUE]
       ELSE IF ~Floatable(signal_data.quantity) THEN ok("Invalid quantity")
       ELSE ok("")

\* round(x) of Python 3 (ties go to the even integer), for x given in tenths
PyRound(tenths) ==
    LET lo == tenths \div 10
        rem == tenths % 10
    IN IF rem < 5 THEN lo
       ELSE IF rem > 5 THEN lo + 1
       ELSE IF lo % 2 = 0 THEN lo ELSE lo + 1

\* Faulty variant of LeverageInt: the upper clamp is missing.
LeverageInt_NoCap(tenths) == IF PyRound(tenths) < 1 THEN 1 ELSE PyRound(tenths)

\* max(1, min(125, int(round(leverage_numeric)))), leverage given in tenths
LeverageInt(tenths) ==
    LET r == PyRound(tenths)
        capped == IF r > 125 THEN 125 ELSE r
    IN IF capped < 1 THEN 1 ELSE capped

\* _apply_leverage up to the exchange call: TRUE when a leverage-set call is made
\* (leverage neither None nor zero).
LeverageConfigured(preference_data) ==
    /\ IsNum(preference_data.leverage)
    /\ preference_data.leverage.v # 0

\* symbol_step_sizes of _apply_quantity_precision
symbol_step_sizes == {
       <<<<"B", "T", "C", "U", "S", "D", "T">>, Dec(1, -3)>>,
       <<<<"B", "T", "C", "U", "S", "D">>, Dec(1, -3)>>,
       <<<<"B", "T", "C", "B", "U", "S", "D">>, Dec(1, -3)>>,
       <<<<"B", "T", "C", "F", "D", "U", "S", "D">>, Dec(1, -3)>>,
       <<<<"E", "T", "H", "U", "S", "D", "T">>, Dec(1, -4)>>,
       <<<<"E", "T", "H", "U", "S", "D">>, Dec(1, -4)>>,
       <<<<"E", "T", "H", "B", "U", "S", "D">>, Dec(1, -4)>>,
       <<<<"E", "T", "H", "B", "T", "C">>, Dec(1, -5)>>,
       <<<<"A", "D", "A", "U", "S", "D", "T">>, Dec(1, 0)>>,
       <<<<"B", "N", "B", "U", "S", "D", "T">>, Dec(1, -3)>>,
       <<<<"S", "O", "L", "U", "S", "D", "T">>, Dec(1, -3)>>,
       <<<<"X", "R", "P", "U", "S", "D", "T">>, Dec(1, -1)>>,
       <<<<"D", "O", "G", "E", "U", "S", "D", "T">>, Dec(1, 0)>>,
       <<<<"A", "V", "A", "X", "U", "S", "D", "T">>, Dec(1, -2)>>,
       <<<<"L", "I", "N", "K", "U", "S", "D", "T">>, Dec(1, -2)>>,
       <<<<"D", "O", "T", "U", "S", "D", "T">>, Dec(1, -2)>>,
       <<<<"U", "N", "I", "U", "S", "D", "T">>, Dec(1, -2)>>,
       <<<<"L", "T", "C", "U", "S", "D", "T">>, Dec(1, -3)>>,
       <<<<"B", "C", "H", "U", "S", "D", "T">>, Dec(1, -3)>>,
       <<<<"F", "I", "L", "U", "S", "D", "T">>, Dec(1, -2)>>,
       <<<<"T", "R", "X", "U", "S", "D", "T">>, Dec(1, 0)>>,
       <<<<"E", "O", "S", "U", "S", "D", "T">>, Dec(1, -1)>>,
       <<<<"X", "L", "M", "U", "S", "D", "T">>, Dec(1, 0)>>,
       <<<<"X", "M", "R", "U", "S", "D", "T">>, Dec(1, -3)>>,
       <<<<"E", "T", "C", "U", "S", "D", "T">>, Dec(1, -2)>>,
       <<<<"V", "E", "T", "U", "S", "D", "T">>, Dec(1, 0)>>,
       <<<<"I", "C", "P", "U", "S", "D", "T">>, Dec(1, -2)>>,
       <<<<"F", "T", "M", "U", "S", "D", "T">>, Dec(1, 0)>>,
       <<<<"H", "B", "A", "R", "U", "S", "D", "T">>, Dec(1, 0)>>,
       <<<<"N", "E", "A", "R", "U", "S", "D", "T">>, Dec(1, -2)>>,
       <<<<"A", "T", "O", "M", "U", "S", "D", "T">>, Dec(1, -2)>>,
       <<<<"A", "L", "G", "O", "U", "S", "D", "T">>, Dec(1, 0)>>,
       <<<<"M", "A", "T", "I", "C", "U", "S", "D", "T">>, Dec(1, 0)>>,
       <<<<"S", "A", "N", "D", "U", "S", "D", "T">>, Dec(1, 0)>>,
       <<<<"M", "A", "N", "A", "U", "S", "D", "T">>, Dec(1, 0)>>,
       <<<<"1", "0", "0", "0", "P", "E", "P", "E", "U", "S", "D", "T">>, Dec(1000, 0)>>,
       <<<<"1", "0", "0", "0", "S", "H", "I", "B", "U", "S", "D", "T">>, Dec(1000, 0)>>,
       <<<<"1", "0", "0", "0", "F", "L", "O", "K", "I", "U", "S", "D", "T">>, Dec(1000, 0)>>
    }

\* "0.001": the step _get_dynamic_step_size and its caller fall back to
DefaultStep == Dec(1, -3)

\* symbol.upper().replace('.P', '')
SymbolForPrecision(symbol) == RemoveAll(Upper(symbol), DOT_P)
InStepTable(symbol) ==
    LET key == SymbolForPrecision(symbol)
    IN \E e \in symbol_step_sizes : e[1] = key
TableStep(symbol) ==
    LET key == SymbolForPrecision(symbol)
    IN (CHOOSE e \in symbol_step_sizes : e[1] = key)[2]

\* decimal_places = max(0, -step_size_decimal.as_tuple().exponent)
DecimalPlaces(step) == IF step.exp < 0 THEN 0 - step.exp ELSE 0

\* Decimal quantization to `places` decimals as format() does it: round half even
RoundHalfEven(n, d) ==
    LET lo == n \div d
        rem2 == 2 * (n % d)
    IN IF rem2 < d THEN lo
       ELSE IF rem2 > d THEN lo + 1
       ELSE IF lo % 2 = 0 THEN lo ELSE lo + 1

\* f"{applied_quantity:.{decimal_places}f}" for a finite quantity in units
FormatFixed(units, places) ==
    LET scaled == IF places >= UnitExp
                  THEN units * 10 ^ (places - UnitExp)
                  ELSE RoundHalfEven(units, 10 ^ (UnitExp - places))
        whole == scaled \div 10 ^ places
        frac == scaled % 10 ^ places
    IN IntStr(whole) \o
       (IF places = 0 THEN <<>>
        ELSE <<".">> \o [i \in 1..places |-> Digits[((frac \div 10 ^ (places - i)) % 10) + 1]])

\* Faulty variant of FloorToStep: rounds to the nearest multiple instead of down.
FloorToStep_Nearest(units, step_units) ==
    ((units + step_units \div 2) \div step_units) * step_units

\* (quantity_decimal // step_size_decimal) * step_size_decimal, in units
FloorToStep(units, step_units) == (units \div step_units) * step_units

\* _apply_quantity_precision(quantity, symbol) once the step size is resolved:
\* the floored quantity as float and as string, or the zero-quantity error.
_apply_quantity_precision(quantity, step) ==
    IF quantity.k = "inf"
    THEN [error |-> "", quantity |-> InfN, quantity_str |-> InfinityStr]
    ELSE LET applied_quantity == FloorToStep(quantity.v, Units(step))
         IN IF applied_quantity <= 0
            THEN [error |-> "Calculated quantity is zero", quantity |-> Num(0), quantity_str |-> <<>>]
            ELSE [error |-> "", quantity |-> Num(applied_quantity),
                  quantity_str |-> FormatFixed(applied_quantity, DecimalPlaces(step))]

(***************************************************************************)
(* State                                                                   *)
(***************************************************************************)
VARIABLES
    client,            \* trader.client is set (API key and secret configured)
    preference_store,  \* strategy_preferences row of the default user: <<>> or <<row>>
    now,               \* the wall clock datetime.now() reads
    executions,        \* store_execution calls, in order, each with its commit outcome
    signals,           \* store_signal calls, in order, each with its commit outcome
    body,              \* per alert: the request body as posted
    pc,                \* per alert: position of its receive_signal call
    data,              \* per alert: the payload dict `data`
    timing,            \* per alert: timing_data
    validation,        \* per alert: validation_result
    trade,             \* per alert: locals of execute_trade
    execution_result,  \* per alert: <<>> (None) or <<result dict>>
    calls,             \* per alert: exchange calls issued, in order
    exc,               \* per alert: the exception being handled ("" when none)
    response           \* per alert: what receive_signal returned

vars == <<client, preference_store, now, executions, signals, body, pc, data, timing,
          validation, trade, execution_result, calls, exc, response>>

Alerts == DOMAIN pc

\* A payload dict; a key that is absent (or null) is None / NoneN.
Payload(action, symbol, quantity, price, strategy, time) ==
    [action |-> action, symbol |-> symbol, quantity |-> quantity, price |-> price,
     strategy |-> strategy, time |-> time,
     applied_leverage |-> NoneN, applied_capital_percent |-> NoneN]
EmptyData == Payload(None, None, NoneN, NoneN, None, NoneN)

\* A StrategyPreference row; leverage in tenths, capital_allocation_percent in percent.
Preference(product, strategy, direction_mode, leverage, capital) ==
    [product |-> product, strategy |-> strategy, direction_mode |-> direction_mode,
     leverage |-> leverage, capital_allocation_percent |-> capital]
\* The row get_or_create_preference inserts: every nullable column NULL.
DefaultPreference == Preference(None, None, "", NoneN, NoneN)

\* _initialize_timing_data() before 'received' is read
NoTiming == [signal_sent |-> NoneN, received |-> NoneN, processed |-> NoneN,
             sent_to_binance |-> NoneN, executed |-> NoneN]
NoValidation == [raises |-> FALSE, allow_execution |-> FALSE, ignore_message |-> <<>>,
                 preference |-> <<>>, clean_price |-> NoneN, clean_quantity |-> NoneN,
                 signal_strategy |-> None]
\* locals of the latest _apply_quantity_precision call: its argument, the step it
\* resolved, and the floored quantity
NoPrecision == [quantity |-> NoneN, step |-> Dec(0, 0), applied_quantity |-> NoneN]
NoTrade == [action |-> <<>>, symbol |-> <<>>, base_quantity |-> NoneN,
            applied_leverage |-> NoneN, price_for_sizing |-> NoneN,
            percent_value |-> NoneN, available_balance |-> NoneN,
            applied_quantity |-> NoneN, quantity_str |-> <<>>, phase |-> "none",
            precision |-> NoPrecision]
NoResponse == [status |-> "none", message |-> <<>>, result |-> <<>>,
               signal_product |-> None, timing |-> NoTiming]

(***************************************************************************)
(* Inputs                                                                  *)
(***************************************************************************)
ALSAPRO_1 == <<"A","L","S","A","P","R","O"," ","1">>
ALSAPRO_2 == <<"A","L","S","A","P","R","O"," ","2">>
\* the same strategy as a charting tool may send it: other case, trailing blank
alsapro_1_padded == <<"a","l","s","a","p","r","o"," ","1"," ">>
BTC == <<"B","T","C">>
ETH == <<"E","T","H">>
BTCUSDT == <<"B","T","C","U","S","D","T">>
BINANCE_ETHUSDT_P == <<"B","I","N","A","N","C","E",":","E","T","H","U","S","D","T",".","P">>
btcusdt_p == <<"b","t","c","u","s","d","t",".","p">>
ADAUSDT == <<"A","D","A","U","S","D","T">>
\* a symbol the static step table does not list
WIFUSDT == <<"W","I","F","U","S","D","T">>

\* two stacked quote suffixes; a quote suffix followed by a digit; blanks, lower
\* case, an underscore and a contract suffix together
BTCUSDUSDT == <<"B","T","C","U","S","D","U","S","D","T">>
BTCUSDT1 == <<"B","T","C","U","S","D","T","1">>
btc_usdt_padded == <<" ","b","t","c","_","u","s","d","t",".","p"," ">>

Strategies == {None, ALSAPRO_1, alsapro_1_padded, ALSAPRO_2, NonStr}
Actions == {None, <<"b","u","y">>, <<"S","E","L","L">>, <<"h","o","l","d">>, NonStr}
Symbols == {None, BTCUSDT, BINANCE_ETHUSDT_P, btcusdt_p, NonStr}
ExecSymbols == {BTCUSDT, BINANCE_ETHUSDT_P, ADAUSDT, WIFUSDT}
\* quantity: k * 0.0005, a negative one, 2.5, 2500.5, inf, a non-numeric string, absent
Quantities ==
    {Num(k * Units(Dec(5, -4))) : k \in 0..MaxQtyK}
    \cup {Num(0 - Units(Dec(15, -4))), Num(Units(Dec(25, -1))), InfN, BadN, NoneN}
\* leverage in tenths: unset, 0, 0.5, 3.0, 124.5, 130.0
Leverages == {NoneN, Num(0), Num(5), Num(30), Num(1245), Num(1300)}
\* capital_allocation_percent: unset, 0, a negative value, 50
Capitals == {NoneN, Num(0), Num(0 - 5), Num(50)}
Prices == {NoneN, Num(2)}
\* what the exchange reports: availableBalance in USDT, ticker price, LOT_SIZE steps
Balances == {0, 10}
TickerPrices == {4}
DynamicSteps == {Dec(1, 0), Dec(1, -2), Dec(10, -4)}
\* the alert's own time field: absent, unparseable, before and after the clock starts
EarlyTime == Num(0)
LateTime == Num(9)
Times == {NoneN, BadN, EarlyTime, LateTime}

StoredPreferences ==
    {Preference(p, s, d, NoneN, NoneN) :
        p \in {None, BTC, ETH}, s \in {None, ALSAPRO_1},
        d \in {"", "allow_long_short", "allow_long_only", "allow_short_only"}}

Object(payload) == [kind |-> "object", payload |-> payload]

\* Scenario families: the filter inputs vary with a plain order behind them; the
\* sizing inputs and the leverage values vary behind a filter that lets the alert
\* through; the body kinds and time fields vary on their own.
FilterScenarios ==
    {[client |-> c, store |-> <<p>>,
      body |-> Object(Payload(a, s, Num(Units(Dec(15, -4))), NoneN, st, NoneN))] :
        c \in BOOLEAN, p \in StoredPreferences, a \in Actions, s \in Symbols,
        st \in Strategies}
SizingScenarios ==
    {[client |-> TRUE,
      store |-> <<Preference(None, ALSAPRO_1, "allow_long_short", l, cp)>>,
      body |-> Object(Payload(<<"b","u","y">>, s, q, pr, ALSAPRO_1, NoneN))] :
        l \in {NoneN, Num(30)}, cp \in Capitals, s \in ExecSymbols, q \in Quantities,
        pr \in Prices}
LeverageScenarios ==
    {[client |-> TRUE,
      store |-> <<Preference(None, ALSAPRO_1, "allow_long_short", l, NoneN)>>,
      body |-> Object(Payload(<<"b","u","y">>, s, Num(k * Units(Dec(5, -4))), NoneN,
                              ALSAPRO_1, NoneN))] :
        l \in Leverages, s \in {BTCUSDT, WIFUSDT}, k \in {1, 3}}
BodyScenarios ==
    {[client |-> TRUE, store |-> st, body |-> b] :
        st \in {<<>>, <<Preference(BTC, ALSAPRO_1, "allow_long_only", Num(30), NoneN)>>},
        b \in {[kind |-> "invalid", payload |-> EmptyData],
               [kind |-> "array", payload |-> EmptyData],
               Object(EmptyData)}
              \cup {Object(Payload(<<"b","u","y">>, BTCUSDT, Num(Units(Dec(15, -4))), NoneN,
                                   ALSAPRO_1, t)) : t \in Times}}
\* symbols of unusual shape in front of a product selection
SymbolScenarios ==
    {[client |-> TRUE,
      store |-> <<Preference(p, ALSAPRO_1, "allow_long_short", NoneN, NoneN)>>,
      body |-> Object(Payload(<<"b","u","y">>, s, Num(Units(Dec(15, -4))), NoneN,
                              ALSAPRO_1, NoneN))] :
        p \in {BTC, ETH}, s \in {BTCUSDUSDT, BTCUSDT1, btc_usdt_padded}}
Scenarios ==
    FilterScenarios \cup SizingScenarios \cup LeverageScenarios \cup BodyScenarios
        \cup SymbolScenarios

InitWith(ids, scenarios) ==
    /\ \E sc \in scenarios :
          /\ client = sc.client
          /\ preference_store = sc.store
          /\ body = [a \in ids |-> sc.body]
    /\ now = 1
    /\ executions = <<>>
    /\ signals = <<>>
    /\ pc = [a \in ids |-> "idle"]
    /\ data = [a \in ids |-> EmptyData]
    /\ timing = [a \in ids |-> NoTiming]
    /\ validation = [a \in ids |-> NoValidation]
    /\ trade = [a \in ids |-> NoTrade]
    /\ execution_result = [a \in ids |-> <<>>]
    /\ calls = [a \in ids |-> <<>>]
    /\ exc = [a \in ids |-> ""]
    /\ response = [a \in ids |-> NoResponse]

Init == InitWith({1}, Scenarios)

\* Two alerts posted to the one process: two orders under a leverage; a capital-
\* sized order for an unlisted symbol next to an unreadable body; a denied alert
\* next to an unreadable body.
PlainOrder == Object(Payload(<<"b","u","y">>, BTCUSDT, Num(Units(Dec(15, -4))), NoneN,
                             ALSAPRO_1, NoneN))
UnreadableBody == [kind |-> "invalid", payload |-> EmptyData]
PairScenarios ==
    {[client |-> TRUE,
      store |-> <<Preference(None, ALSAPRO_1, "allow_long_short", Num(30), NoneN)>>,
      bodies |-> <<PlainOrder, PlainOrder>>],
     [client |-> TRUE,
      store |-> <<Preference(None, ALSAPRO_1, "allow_long_short", NoneN, Num(50))>>,
      bodies |-> <<Object(Payload(<<"b","u","y">>, WIFUSDT, Num(Units(Dec(15, -4))), NoneN,
                                  ALSAPRO_1, NoneN)),
                   UnreadableBody>>],
     [client |-> TRUE,
      store |-> <<Preference(BTC, ALSAPRO_2, "allow_long_only", NoneN, NoneN)>>,
      bodies |-> <<PlainOrder, UnreadableBody>>]}

InitPair ==
    /\ \E sc \in PairScenarios :
          /\ client = sc.client
          /\ preference_store = sc.store
          /\ body = sc.bodies
    /\ now = 1
    /\ executions = <<>>
    /\ signals = <<>>
    /\ pc = [a \in {1, 2} |-> "idle"]
    /\ data = [a \in {1, 2} |-> EmptyData]
    /\ timing = [a \in {1, 2} |-> NoTiming]
    /\ validation = [a \in {1, 2} |-> NoValidation]
    /\ trade = [a \in {1, 2} |-> NoTrade]
    /\ execution_result = [a \in {1, 2} |-> <<>>]
    /\ calls = [a \in {1, 2} |-> <<>>]
    /\ exc = [a \in {1, 2} |-> ""]
    /\ response = [a \in {1, 2} |-> NoResponse]

(***************************************************************************)
(* receive_signal                                                          *)
(***************************************************************************)
Set(f, a, v) == [f EXCEPT ![a] = v]

\* Faulty variant of OnLoop: every handler runs on a thread of its own.
OnLoop_Threaded(a) == TRUE

\* The handler is a coroutine on one event loop and its only suspension point is
\* `await request.json()`: execute_trade is awaited but never suspends, and the
\* exchange and database calls block the loop.  Past the body read, a handler runs
\* to its return before any other handler continues.
OnLoop(a) == \A b \in Alerts \ {a} : pc[b] \in {"idle", "json", "done"}

\* Faulty variant of ExceptionTarget: the try block ends before the response is
\* built, so an exception raised there leaves the handler.
ExceptionTarget_RespondOutsideTry(stage) == IF stage = "respond" THEN "escaped" ELSE "except"

\* Where control goes when `stage` of the try block raises: the handler's
\* `except Exception` clause covers every statement after timing_data is set.
ExceptionTarget(stage) == "except"

\* Faulty variant of AfterWrite: the database error leaves the store function.
AfterWrite_Propagate(committed, next) == IF committed THEN next ELSE "except"

\* Where the handler goes after store_execution / store_signal: both catch the
\* database error, roll back and return False, and the caller ignores what they
\* return.
AfterWrite(committed, next) == next

\* A store_execution(action, symbol, quantity, status, order_id, timing_data) call.
ExecutionRow(a, quantity, status, order_id, committed) ==
    [alert |-> a, action |-> data[a].action, symbol |-> data[a].symbol,
     quantity |-> quantity, status |-> status, order_id |-> order_id,
     timing |-> timing[a], committed |-> committed]

\* quantity_for_storage: float(data.get("quantity")) when that works, else the raw value
QuantityForStorage(d) == d.quantity

\* timing_data = _initialize_timing_data(): the request has reached the handler
Receive(a) ==
    /\ pc[a] = "idle"
    /\ OnLoop(a)
    /\ timing' = Set(timing, a, [NoTiming EXCEPT !.received = Num(now)])
    /\ now' = now + 1
    /\ pc' = Set(pc, a, "json")
    /\ UNCHANGED <<client, preference_store, executions, signals, body, data, validation,
                   trade, execution_result, calls, exc, response>>

\* _extract_signal_time(data, timing_data): a parseable time becomes signal_sent,
\* anything else is passed over
_extract_signal_time(d, timing_data) ==
    IF IsNum(d.time) THEN [timing_data EXCEPT !.signal_sent = d.time] ELSE timing_data

\* data = await request.json(); non-dict bodies become {}; then the signal time
ParseJson(a) ==
    /\ pc[a] = "json"
    /\ OnLoop(a)
    /\ IF body[a].kind = "invalid"
       THEN /\ exc' = Set(exc, a, "JSONDecodeError")
            /\ pc' = Set(pc, a, ExceptionTarget("json"))
            /\ UNCHANGED <<data, timing>>
       ELSE /\ data' = Set(data, a, IF body[a].kind = "object" THEN body[a].payload
                                                            ELSE EmptyData)
            /\ timing' = Set(timing, a, _extract_signal_time(data'[a], timing[a]))
            /\ pc' = Set(pc, a, "validate")
            /\ UNCHANGED exc
    /\ UNCHANGED <<client, preference_store, now, executions, signals, body, validation,
                   trade, execution_result, calls, response>>

\* _load_preference_data(): get_or_create_preference inserts the default row when
\* the user has none; a database error gives (None, load_error).
LoadedOk(store) ==
    [pref |-> IF store = <<>> THEN <<DefaultPreference>> ELSE store, error |-> ""]
LoadFailed == [pref |-> <<>>, error |-> "Failed to load strategy preference"]

\* validation_result = _validate_signal_permissions(data); timing_data['processed']
Validate(a) ==
    /\ pc[a] = "validate"
    /\ OnLoop(a)
    /\ \E db_ok \in BOOLEAN :
          LET loaded == IF db_ok THEN LoadedOk(preference_store) ELSE LoadFailed
              v == _validate_signal_permissions(data[a], loaded, client)
          IN /\ preference_store' = IF db_ok THEN loaded.pref ELSE preference_store
             /\ IF v.raises
                THEN /\ exc' = Set(exc, a, "AttributeError")
                     /\ pc' = Set(pc, a, ExceptionTarget("validate"))
                     /\ UNCHANGED <<validation, timing, now>>
                ELSE /\ validation' = Set(validation, a, v)
                     /\ timing' = Set(timing, a, [timing[a] EXCEPT !.processed = Num(now)])
                     /\ now' = now + 1
                     /\ pc' = Set(pc, a, IF v.allow_execution THEN "execute" ELSE "ignored")
                     /\ UNCHANGED exc
    /\ UNCHANGED <<client, executions, signals, body, data, trade, execution_result,
                   calls, response>>

\* Faulty variant of AfterIgnored: the ignore branch returns without the signal
\* record.
AfterIgnored_SkipStore == "respond"

\* Where receive_signal goes after its ignore branch: on to _store_signal_data,
\* the statement after the if/else.
AfterIgnored == "store_signal"

\* _process_ignored_signal(data, ignore_message, timing_data); execution_result = None
ProcessIgnoredSignal(a) ==
    /\ pc[a] = "ignored"
    /\ OnLoop(a)
    /\ IF validation[a].ignore_message # <<>>
       THEN \E committed \in BOOLEAN :
               /\ executions' = Append(executions,
                      ExecutionRow(a, QuantityForStorage(data[a]), "ignored",
                                   validation[a].ignore_message, committed))
               /\ pc' = Set(pc, a, AfterWrite(committed, AfterIgnored))
       ELSE /\ UNCHANGED executions
            /\ pc' = Set(pc, a, AfterIgnored)
    /\ execution_result' = Set(execution_result, a, <<>>)
    /\ UNCHANGED <<client, preference_store, now, signals, body, data, timing, validation,
                   trade, calls, exc, response>>

\* _store_signal_data(data, clean_quantity, clean_price)
StoreSignalData(a) ==
    /\ pc[a] = "store_signal"
    /\ OnLoop(a)
    /\ \E committed \in BOOLEAN :
          /\ signals' = Append(signals,
                 [alert |-> a, action |-> data[a].action, symbol |-> data[a].symbol,
                  quantity |-> IF validation[a].clean_quantity # NoneN
                               THEN validation[a].clean_quantity ELSE data[a].quantity,
                  price |-> validation[a].clean_price, time |-> data[a].time,
                  committed |-> committed])
          /\ pc' = Set(pc, a, AfterWrite(committed, "respond"))
    /\ UNCHANGED <<client, preference_store, now, executions, body, data, timing,
                   validation, trade, execution_result, calls, exc, response>>

\* _build_response(...): the dict returned (message as a sequence of text pieces), or
\* the AttributeError of
\* _normalise_symbol(data.get("symbol")) on a symbol that is no string
_build_response(allow_execution, result, ignore_message, d, timing_data) ==
    IF allow_execution /\ result # <<>>
    THEN [raises |-> FALSE, status |-> "success", message |-> <<"Trade executed">>,
          result |-> result, signal_product |-> None, timing |-> timing_data]
    ELSE IF ignore_message # <<>>
    THEN [raises |-> d.symbol = NonStr, status |-> "ignored", message |-> ignore_message,
          result |-> <<>>,
          signal_product |-> IF d.symbol = NonStr THEN None ELSE _normalise_symbol(d.symbol),
          timing |-> timing_data]
    ELSE [raises |-> FALSE, status |-> "success", message |-> <<"Signal received">>,
          result |-> <<>>, signal_product |-> None, timing |-> timing_data]

BuildResponse(a) ==
    /\ pc[a] = "respond"
    /\ OnLoop(a)
    /\ LET r == _build_response(validation[a].allow_execution, execution_result[a],
                                validation[a].ignore_message, data[a], timing[a])
       IN IF r.raises
          THEN /\ exc' = Set(exc, a, "AttributeError")
               /\ pc' = Set(pc, a, ExceptionTarget("respond"))
               /\ UNCHANGED response
          ELSE /\ response' = Set(response, a,
                      [status |-> r.status, message |-> r.message, result |-> r.result,
                       signal_product |-> r.signal_product, timing |-> r.timing])
               /\ pc' = Set(pc, a, "done")
               /\ UNCHANGED exc
    /\ UNCHANGED <<client, preference_store, now, executions, signals, body, data, timing,
                   validation, trade, execution_result, calls>>

\* except Exception as exc: return {"status": "error", "message": str(exc), "timing": ...}
HandleException(a) ==
    /\ pc[a] = "except"
    /\ OnLoop(a)
    /\ response' = Set(response, a,
           [status |-> "error", message |-> <<exc[a]>>, result |-> <<>>,
            signal_product |-> None, timing |-> timing[a]])
    /\ pc' = Set(pc, a, "done")
    /\ UNCHANGED <<client, preference_store, now, executions, signals, body, data, timing,
                   validation, trade, execution_result, calls, exc>>

(***************************************************************************)
(* _process_execution and BinanceTrader.execute_trade                      *)
(***************************************************************************)
\* An exchange call as the exchange sees it, with whether it succeeded.
Call(op, symbol, leverage, side, type, quantity, ok) ==
    [op |-> op, symbol |-> symbol, leverage |-> leverage, side |-> side,
     type |-> type, quantity |-> quantity, ok |-> ok,
     cause |-> IF ok THEN "" ELSE "failed", reported |-> <<>>]

\* The positions of execute_trade at which the next statement is an exchange call,
\* and the position of a handler blocked in requests.get / requests.post until the
\* exchange has answered.
CallPositions == {"leverage_call", "account_call", "balance_call", "ticker_call", "order_call"}
WaitingFor(position) ==
    CASE position = "leverage_call" -> "leverage_wait"
      [] position = "account_call" -> "account_wait"
      [] position = "balance_call" -> "balance_wait"
      [] position = "ticker_call" -> "ticker_wait"
      [] position = "order_call" -> "order_wait"
      [] position = "normalize" -> "exchange_info_wait"
WaitPositions == {WaitingFor(p) : p \in CallPositions \cup {"normalize"}}
\* An exchange call of alert a is outstanding.
InCall(a) == pc[a] \in WaitPositions

\* _make_request: the HTTP request is sent and the calling thread blocks in it
SendRequest(a) ==
    /\ \/ pc[a] \in CallPositions
       \/ pc[a] = "normalize" /\ ~InStepTable(trade[a].symbol)
    /\ OnLoop(a)
    /\ pc' = Set(pc, a, WaitingFor(pc[a]))
    /\ UNCHANGED <<client, preference_store, now, executions, signals, body, data, timing,
                   validation, trade, execution_result, calls, exc, response>>

ErrorResult(msg) ==
    <<[success |-> FALSE, error |-> msg, order |-> <<>>,
       applied_leverage |-> NoneN, applied_capital_percent |-> NoneN]>>

\* return {"error": ...}: execute_trade is over, _process_execution goes on
FailTrade(a, msg) ==
    /\ execution_result' = Set(execution_result, a, ErrorResult(msg))
    /\ pc' = Set(pc, a, "executed")

\* preference if isinstance(preference, dict) else {}
PreferenceData(a) ==
    IF validation[a].preference = <<>> THEN DefaultPreference ELSE validation[a].preference[1]

\* Faulty variant of AfterLeverageFailure: the error is dropped and sizing goes on.
AfterLeverageFailure_Continue == "sizing"

\* Where execute_trade goes after a leverage-set call that raised
\* BinanceAPIException: `if "error" in leverage_result: return leverage_result`.
AfterLeverageFailure == "executed"

\* timing_data['sent_to_binance']; execute_trade up to its first exchange call:
\* the client check, _validate_signal_data, and _apply_leverage's decision
ExecuteTrade(a) ==
    /\ pc[a] = "execute"
    /\ OnLoop(a)
    /\ timing' = Set(timing, a, [timing[a] EXCEPT !.sent_to_binance = Num(now)])
    /\ now' = now + 1
    /\ LET vr == _validate_signal_data(data[a])
       IN IF ~client THEN FailTrade(a, "Binance client not initialized") /\ UNCHANGED trade
          ELSE IF vr.raises THEN FailTrade(a, "Trade execution error") /\ UNCHANGED trade
          ELSE IF vr.error # "" THEN FailTrade(a, vr.error) /\ UNCHANGED trade
          ELSE /\ trade' = Set(trade, a, [NoTrade EXCEPT !.action = vr.action,
                                                        !.symbol = vr.symbol,
                                                        !.base_quantity = vr.base_quantity])
               /\ pc' = Set(pc, a, IF LeverageConfigured(PreferenceData(a))
                                   THEN "leverage_call" ELSE "sizing")
               /\ UNCHANGED execution_result
    /\ UNCHANGED <<client, preference_store, executions, signals, body, data, validation,
                   calls, exc, response>>

\* self.client.futures_change_leverage(symbol=symbol, leverage=leverage_int)
LeverageCall(a) ==
    /\ pc[a] = "leverage_wait"
    /\ OnLoop(a)
    /\ LET leverage_int == LeverageInt(PreferenceData(a).leverage.v)
       IN \E ok \in BOOLEAN :
             /\ calls' = Set(calls, a, Append(calls[a],
                    Call("leverage", trade[a].symbol, leverage_int, "", "", <<>>, ok)))
             /\ IF ok
                THEN /\ trade' = Set(trade, a,
                            [trade[a] EXCEPT !.applied_leverage = Num(leverage_int)])
                     /\ pc' = Set(pc, a, "sizing")
                     /\ UNCHANGED execution_result
                ELSE /\ execution_result' = Set(execution_result, a,
                            ErrorResult("Failed to set leverage"))
                     /\ pc' = Set(pc, a, AfterLeverageFailure)
                     /\ UNCHANGED trade
    /\ UNCHANGED <<client, preference_store, now, executions, signals, body, data, timing,
                   validation, exc, response>>

\* price_for_sizing of _calculate_quantity
PriceForSizing(reference_price, price_hint) ==
    IF reference_price # NoneN THEN reference_price
    ELSE IF Floatable(price_hint) /\ price_hint # Num(0) THEN price_hint ELSE NoneN

\* Faulty variant of PercentValue: the sign is dropped instead of clamped.
PercentValue_Abs(capital_percent) ==
    IF IsNum(capital_percent) THEN Num(Abs(capital_percent.v)) ELSE NoneN

\* percent_value = max(0.0, float(capital_percent)), None when capital_percent is
PercentValue(capital_percent) ==
    IF IsNum(capital_percent)
    THEN Num(IF capital_percent.v < 0 THEN 0 ELSE capital_percent.v)
    ELSE NoneN

\* _calculate_quantity up to the branch on percent_value
Sizing(a) ==
    /\ pc[a] = "sizing"
    /\ OnLoop(a)
    /\ LET percent_value == PercentValue(PreferenceData(a).capital_allocation_percent)
           price == PriceForSizing(validation[a].clean_price, data[a].price)
           sized == percent_value # NoneN /\ percent_value.v > 0
       IN /\ trade' = Set(trade, a,
                 [trade[a] EXCEPT !.percent_value = percent_value,
                                  !.price_for_sizing = price,
                                  !.applied_quantity = trade[a].base_quantity,
                                  !.phase = "sizing"])
          /\ pc' = Set(pc, a, IF sized THEN "account_call" ELSE "normalize")
    /\ UNCHANGED <<client, preference_store, now, executions, signals, body, data, timing,
                   validation, execution_result, calls, exc, response>>

AfterSummary(a) == IF trade[a].price_for_sizing = NoneN THEN "ticker_call" ELSE "capital_qty"

\* get_account_summary(): self.client.futures_account()
AccountCall(a) ==
    /\ pc[a] = "account_wait"
    /\ OnLoop(a)
    /\ \E ok \in BOOLEAN :
          /\ calls' = Set(calls, a, Append(calls[a],
                 Call("account", <<>>, 0, "", "", <<>>, ok)))
          /\ pc' = Set(pc, a, IF ok THEN "balance_call" ELSE AfterSummary(a))
    /\ UNCHANGED <<client, preference_store, now, executions, signals, body, data, timing,
                   validation, trade, execution_result, exc, response>>

\* get_account_summary(): self.client.futures_account_balance(); the USDT entry's
\* availableBalance, None when the call fails or no USDT entry is returned
BalanceCall(a) ==
    /\ pc[a] = "balance_wait"
    /\ OnLoop(a)
    /\ \E available \in {NoneN} \cup {Num(b) : b \in Balances}, ok \in BOOLEAN :
          /\ ~ok => available = NoneN
          /\ calls' = Set(calls, a, Append(calls[a],
                 Call("balance", <<>>, 0, "", "", <<>>, ok)))
          /\ trade' = Set(trade, a, [trade[a] EXCEPT !.available_balance = available])
    /\ pc' = Set(pc, a, AfterSummary(a))
    /\ UNCHANGED <<client, preference_store, now, executions, signals, body, data, timing,
                   validation, execution_result, exc, response>>

\* self.client.futures_symbol_ticker(symbol=symbol), when no price came with the alert
TickerCall(a) ==
    /\ pc[a] = "ticker_wait"
    /\ OnLoop(a)
    /\ \E price \in {NoneN} \cup {Num(p) : p \in TickerPrices} :
          /\ calls' = Set(calls, a, Append(calls[a],
                 Call("ticker", trade[a].symbol, 0, "", "", <<>>, price # NoneN)))
          /\ trade' = Set(trade, a, [trade[a] EXCEPT !.price_for_sizing = price])
    /\ pc' = Set(pc, a, "capital_qty")
    /\ UNCHANGED <<client, preference_store, now, executions, signals, body, data, timing,
                   validation, execution_result, exc, response>>

\* Faulty variant of MaxFloat: the capital-derived quantity replaces the alert's.
MaxFloat_TakeCalculated(x, y) == y

\* max(x, y) of two floats
MaxFloat(x, y) ==
    IF x.k = "inf" \/ y.k = "inf" THEN InfN
    ELSE IF x.v >= y.v THEN x ELSE y

\* _calculate_quantity_from_capital after its calls: balance and price in whole
\* USDT, percent in percent, the quantity in units
_calculate_quantity_from_capital(percent_value, base_quantity, price_for_sizing, available_balance) ==
    LET usable == /\ available_balance # NoneN
                  /\ IsNum(price_for_sizing)
                  /\ price_for_sizing.v # 0
        positive == usable /\ available_balance.v * percent_value.v > 0
                           /\ price_for_sizing.v > 0
    IN IF positive
       THEN Num((available_balance.v * percent_value.v * 10 ^ UnitExp)
                    \div (100 * price_for_sizing.v))
       ELSE IF base_quantity.k = "inf" THEN InfN
       ELSE Num((base_quantity.v * percent_value.v) \div 100)

\* applied_quantity = max(base_quantity, calculated_quantity)
CapitalQuantity(a) ==
    /\ pc[a] = "capital_qty"
    /\ OnLoop(a)
    /\ LET calculated_quantity ==
               _calculate_quantity_from_capital(trade[a].percent_value,
                   trade[a].base_quantity, trade[a].price_for_sizing,
                   trade[a].available_balance)
       IN trade' = Set(trade, a,
              [trade[a] EXCEPT !.applied_quantity =
                                   MaxFloat(trade[a].base_quantity, calculated_quantity)])
    /\ pc' = Set(pc, a, "normalize")
    /\ UNCHANGED <<client, preference_store, now, executions, signals, body, data, timing,
                   validation, execution_result, calls, exc, response>>

\* signal_data.update({"symbol": symbol, "quantity": applied_quantity}) and the two
\* optional keys
UpdatedSignalData(d, t, quantity) ==
    [d EXCEPT !.symbol = t.symbol,
              !.quantity = quantity,
              !.applied_leverage = t.applied_leverage,
              !.applied_capital_percent = t.percent_value]

\* What follows _apply_quantity_precision(quantity, symbol) with the step resolved.
\* In _calculate_quantity (phase "sizing") the floored quantity is written back
\* into the alert data and handed to _execute_order, which floors it again
\* (phase "order") and keeps the string for the order.
AfterPrecision(a, step) ==
    LET r == _apply_quantity_precision(trade[a].applied_quantity, step)
        locals == [quantity |-> trade[a].applied_quantity, step |-> step,
                   applied_quantity |-> r.quantity]
    IN IF r.error # ""
       THEN /\ FailTrade(a, r.error)
            /\ trade' = Set(trade, a, [trade[a] EXCEPT !.precision = locals])
            /\ UNCHANGED data
       ELSE IF trade[a].phase = "sizing"
       THEN /\ trade' = Set(trade, a, [trade[a] EXCEPT !.applied_quantity = r.quantity,
                                                        !.precision = locals,
                                                        !.phase = "order"])
            /\ data' = Set(data, a, UpdatedSignalData(data[a], trade[a], r.quantity))
            /\ pc' = Set(pc, a, "normalize")
            /\ UNCHANGED execution_result
       ELSE /\ trade' = Set(trade, a, [trade[a] EXCEPT !.applied_quantity = r.quantity,
                                                        !.precision = locals,
                                                        !.quantity_str = r.quantity_str])
            /\ pc' = Set(pc, a, "order_call")
            /\ UNCHANGED <<data, execution_result>>

\* _apply_quantity_precision for a symbol the static table lists
ApplyPrecisionStatic(a) ==
    /\ pc[a] = "normalize"
    /\ OnLoop(a)
    /\ InStepTable(trade[a].symbol)
    /\ AfterPrecision(a, TableStep(trade[a].symbol))
    /\ UNCHANGED <<client, preference_store, now, executions, signals, body, timing,
                   validation, calls, exc, response>>

\* Faulty variant of _get_dynamic_step_size: the exchange's answer is not read.
_get_dynamic_step_size_IgnoreListing(ok, listing) == DefaultStep

\* _get_dynamic_step_size(symbol) after futures_exchange_info(): the LOT_SIZE step
\* listed for the symbol (listing = <<step>>), "0.001" when the call failed or the
\* symbol or its LOT_SIZE filter is not listed (listing = <<>>)
_get_dynamic_step_size(ok, listing) ==
    IF ok /\ listing # <<>> THEN listing[1] ELSE DefaultStep

\* _apply_quantity_precision for a symbol the static table does not list:
\* self.client.futures_exchange_info() returns or raises
ExchangeInfoCall(a) ==
    /\ pc[a] = "exchange_info_wait"
    /\ OnLoop(a)
    /\ ~InStepTable(trade[a].symbol)
    /\ \E listing \in {<<>>} \cup {<<step>> : step \in DynamicSteps}, ok \in BOOLEAN :
          /\ ~ok => listing = <<>>
          /\ calls' = Set(calls, a, Append(calls[a],
                 [Call("exchange_info", <<>>, 0, "", "", <<>>, ok)
                  EXCEPT !.reported = listing]))
          /\ AfterPrecision(a, _get_dynamic_step_size(ok, listing))
    /\ UNCHANGED <<client, preference_store, now, executions, signals, body, timing,
                   validation, exc, response>>

\* Faulty variant of AfterOrder: a submission lost in transport is sent again.
AfterOrder_Retry(outcome) == IF outcome = "transport" THEN "order_call" ELSE "executed"

\* Where execute_trade goes after futures_create_order returned or raised: the
\* result or the caught exception is returned, the call is not issued again.
AfterOrder(outcome) == "executed"

\* The error execute_trade returns when futures_create_order raised: _make_request
\* turns an HTTP error status (a rejection by the exchange) and a connection
\* failure alike into BinanceAPIException("Request failed: ..."), and execute_trade
\* puts "Binance API error: " in front.
OrderError(outcome) == "Binance API error: Request failed"

\* side = "BUY" if action == "buy" else "SELL"
OrderSide(action) == IF action = BUY THEN "BUY" ELSE "SELL"

\* self.client.futures_create_order(symbol, side, type="MARKET", quantity): accepted,
\* rejected by the exchange, or lost in transport; _make_request raises
\* BinanceAPIException for both failures
OrderCall(a) ==
    /\ pc[a] = "order_wait"
    /\ OnLoop(a)
    /\ \E outcome \in {"ok", "rejected", "transport"} :
          /\ calls' = Set(calls, a, Append(calls[a],
                 [Call("order", trade[a].symbol, 0, OrderSide(trade[a].action), "MARKET",
                       trade[a].quantity_str, outcome = "ok")
                  EXCEPT !.cause = IF outcome = "ok" THEN "" ELSE outcome]))
          /\ execution_result' = Set(execution_result, a,
                 IF outcome = "ok"
                 THEN <<[success |-> TRUE, error |-> "", order |-> <<"orderId">>,
                         applied_leverage |-> trade[a].applied_leverage,
                         applied_capital_percent |-> trade[a].percent_value]>>
                 ELSE ErrorResult(OrderError(outcome)))
          /\ pc' = Set(pc, a, AfterOrder(outcome))
    /\ UNCHANGED <<client, preference_store, now, executions, signals, body, data, timing,
                   validation, trade, exc, response>>

\* _process_execution after execute_trade returned: timing_data['executed'] and the
\* store_execution call, "success" with the order id or "failed" with the error
ProcessExecution(a) ==
    /\ pc[a] = "executed"
    /\ OnLoop(a)
    /\ timing' = Set(timing, a, [timing[a] EXCEPT !.executed = Num(now)])
    /\ now' = now + 1
    /\ LET r == execution_result[a][1]
       IN \E committed \in BOOLEAN :
             /\ executions' = Append(executions,
                    [ExecutionRow(a, QuantityForStorage(data[a]),
                                  IF r.success THEN "success" ELSE "failed",
                                  IF r.success THEN r.order ELSE <<r.error>>, committed)
                     EXCEPT !.timing = timing'[a]])
             /\ pc' = Set(pc, a, AfterWrite(committed, "store_signal"))
    /\ UNCHANGED <<client, preference_store, signals, body, data, validation, trade,
                   execution_result, calls, exc, response>>

Next ==
    \/ \E a \in Alerts : Receive(a)
    \/ \E a \in Alerts : ParseJson(a)
    \/ \E a \in Alerts : Validate(a)
    \/ \E a \in Alerts : ExecuteTrade(a)
    \/ \E a \in Alerts : SendRequest(a)
    \/ \E a \in Alerts : LeverageCall(a)
    \/ \E a \in Alerts : Sizing(a)
    \/ \E a \in Alerts : AccountCall(a)
    \/ \E a \in Alerts : BalanceCall(a)
    \/ \E a \in Alerts : TickerCall(a)
    \/ \E a \in Alerts : CapitalQuantity(a)
    \/ \E a \in Alerts : ApplyPrecisionStatic(a)
    \/ \E a \in Alerts : ExchangeInfoCall(a)
    \/ \E a \in Alerts : OrderCall(a)
    \/ \E a \in Alerts : ProcessExecution(a)
    \/ \E a \in Alerts : ProcessIgnoredSignal(a)
    \/ \E a \in Alerts : StoreSignalData(a)
    \/ \E a \in Alerts : BuildResponse(a)
    \/ \E a \in Alerts : HandleException(a)

Spec == Init /\ [][Next]_vars

\* Two alerts in flight in one process.
SpecPair == InitPair /\ [][Next]_vars

(***************************************************************************)
(* Properties                                                              *)
(***************************************************************************)
\* The alert as it arrived (data is updated in place by execute_trade).
Received(a) == IF body[a].kind = "object" THEN body[a].payload ELSE EmptyData
\* The permission filter has returned for alert a.
Decided(a) == timing[a].processed # NoneN
\* The positions in calls[a] of the calls of one kind.
CallsOf(a, op) == {i \in DOMAIN calls[a] : calls[a][i].op = op}
\* execute_trade has returned {"error": ...} for alert a.
Failed(a) == execution_result[a] # <<>> /\ ~execution_result[a][1].success
\* The store_execution calls made for alert a.
OutcomeRecords(a) == {i \in DOMAIN executions : executions[i].alert = a}

\* C1: an alert the permission filter does not let through (a check gave a denial
\* reason, the alert is empty, no exchange client is configured, or the filter
\* never returned) has no leverage-set call and no order-submit call.
C1_NoExchangeCallWhenDenied ==
    \A a \in Alerts :
        (\/ ~Decided(a)
         \/ ~client
         \/ IsEmptyData(Received(a))
         \/ validation[a].ignore_message # <<>>)
        => CallsOf(a, "leverage") \cup CallsOf(a, "order") = {}

\* C1 witness: an alert denied with a reason has been answered, with a client configured.
C1_Witness ==
    \E a \in Alerts :
        /\ pc[a] = "done" /\ client /\ Decided(a)
        /\ validation[a].ignore_message # <<>>
        /\ response[a].status = "ignored"
        /\ calls[a] = <<>>

\* C2: at most one order-submit call per alert; once execute_trade has failed, no
\* further exchange call is issued for the alert, the handler is at or past the
\* recording of the outcome, and the outcome it records is "failed".
C2_AtMostOneOrderNoRetry ==
    [][\A a \in Alerts :
          /\ Cardinality({i \in DOMAIN calls'[a] : calls'[a][i].op = "order"}) <= 1
          /\ Failed(a) =>
                /\ calls'[a] = calls[a]
                /\ pc[a] \in {"executed", "store_signal", "respond", "done"}
                /\ (pc[a] = "executed" /\ pc'[a] # "executed") =>
                      /\ Len(executions') = Len(executions) + 1
                      /\ executions'[Len(executions')].alert = a
                      /\ executions'[Len(executions')].status = "failed"]_vars

\* C2 witness: an order submission failed, and the alert was answered with that one call.
C2_Witness ==
    \E a \in Alerts :
        /\ pc[a] = "done" /\ Failed(a)
        /\ Cardinality(CallsOf(a, "order")) = 1
        /\ \E i \in CallsOf(a, "order") : ~calls[a][i].ok /\ i = Len(calls[a])
        /\ \E r \in OutcomeRecords(a) : executions[r].status = "failed"

\* The preference the filter loaded carries a leverage (neither None nor 0).
CarriesLeverage(a) ==
    /\ validation[a].preference # <<>>
    /\ IsNum(validation[a].preference[1].leverage)
    /\ validation[a].preference[1].leverage.v # 0

\* C3: with a leverage configured, every order-submit call comes after a successful
\* leverage-set call for the same symbol; after a failed leverage-set call there is
\* no order-submit call, execute_trade has failed, and the record written is "failed".
C3_OrderOnlyAfterLeverageSet ==
    \A a \in Alerts :
        CarriesLeverage(a) =>
            /\ \A i \in CallsOf(a, "order") :
                  \E j \in CallsOf(a, "leverage") :
                      /\ j < i
                      /\ calls[a][j].ok
                      /\ calls[a][j].symbol = calls[a][i].symbol
            /\ (\E j \in CallsOf(a, "leverage") : ~calls[a][j].ok) =>
                  /\ CallsOf(a, "order") = {}
                  /\ Failed(a)
                  /\ execution_result[a][1].error = "Failed to set leverage"
                  /\ pc[a] \in {"store_signal", "respond", "done"} =>
                        \A r \in OutcomeRecords(a) : executions[r].status = "failed"
                  /\ pc[a] = "done" => OutcomeRecords(a) # {}

\* C3 witness: a leverage-set call failed and the alert was answered.
C3_Witness ==
    \E a \in Alerts :
        /\ pc[a] = "done" /\ CarriesLeverage(a)
        /\ \E j \in CallsOf(a, "leverage") : ~calls[a][j].ok
        /\ Failed(a)

\* The conditions of the permission filter, written on the alert as received and
\* the preference as loaded.
DirectionPermits(mode, action) ==
    \/ mode \in {"", "allow_long_short"}
    \/ /\ IsStr(action)
       /\ \/ mode = "allow_long_only" /\ Lower(action) = BUY
          \/ mode = "allow_short_only" /\ Lower(action) = SELL
ProductPermits(product, symbol) ==
    \/ Strip(OrEmpty(product)) = <<>>
    \/ /\ symbol # NonStr
       /\ Lower(_normalise_symbol(symbol)) = Lower(Strip(product))
\* the strategies are equal, case-insensitively, as they are
StrategyEqual(selected, incoming) ==
    /\ Truthy(selected) /\ IsStr(incoming)
    /\ Lower(selected) = Lower(incoming)
\* the strategies are equal, case-insensitively, once surrounding blanks are trimmed
StrategyEqualTrimmed(selected, incoming) ==
    /\ Truthy(selected) /\ IsStr(incoming)
    /\ Strip(selected) # <<>>
    /\ Lower(Strip(selected)) = Lower(Strip(incoming))
\* The filter has let alert a through.
Allowed(a) == Decided(a) /\ validation[a].allow_execution
\* every condition but the strategy's
OtherConditions(a) ==
    /\ validation[a].preference # <<>>
    /\ DirectionPermits(validation[a].preference[1].direction_mode, Received(a).action)
    /\ ProductPermits(validation[a].preference[1].product, Received(a).symbol)
    /\ client
    /\ ~IsEmptyData(Received(a))
FilterConditionsAsClaimed(a) ==
    /\ OtherConditions(a)
    /\ StrategyEqual(validation[a].preference[1].strategy, Received(a).strategy)
FilterConditionsTrimmed(a) ==
    /\ OtherConditions(a)
    /\ StrategyEqualTrimmed(validation[a].preference[1].strategy, Received(a).strategy)

\* C4 as claimed: once the filter has run, the alert is allowed exactly when the
\* preference strategy is set and equals the alert strategy case-insensitively, the
\* direction mode permits the action, the product is unset or equals the normalised
\* base asset, a client is configured and the alert is not empty.
C4_AllowedIffConditions ==
    \A a \in Alerts :
        pc[a] \notin {"idle", "json", "validate"} =>
            (Allowed(a) <=> FilterConditionsAsClaimed(a))

\* C4 amended: the same, with the two strategies compared after surrounding
\* whitespace is trimmed from both.
C4_AllowedIffConditionsTrimmed ==
    \A a \in Alerts :
        pc[a] \notin {"idle", "json", "validate"} =>
            (Allowed(a) <=> FilterConditionsTrimmed(a))

\* C4 witness: an alert whose strategy differs from the selected one in case and by
\* a trailing blank is allowed under a restrictive direction mode and a product.
C4_Witness ==
    \E a \in Alerts :
        /\ Allowed(a)
        /\ Received(a).strategy = alsapro_1_padded
        /\ validation[a].preference[1].direction_mode = "allow_short_only"
        /\ validation[a].preference[1].product = BTC

\* C5: a response carries a result (and then says "success", "Trade executed")
\* only when an order of the alert was accepted by the exchange.
C5_ResultOnlyWhenOrderAccepted ==
    \A a \in Alerts :
        (\/ response[a].result # <<>>
         \/ response[a].message = <<"Trade executed">>)
        => /\ \E i \in CallsOf(a, "order") : calls[a][i].ok
           /\ ~Failed(a)

\* C6: an alert the handler has answered after the filter decided on it has exactly
\* one outcome record, whether it was executed, failed in execution or was denied.
C6_ExactlyOneOutcomeRecord ==
    \A a \in Alerts :
        (pc[a] = "done" /\ Decided(a) /\ response[a].status # "error")
        => Cardinality(OutcomeRecords(a)) = 1

\* C7: an exception raised in the handler's try block never leaves the handler:
\* control is in the except clause or past it, and the response then returned has
\* status "error", the exception's message, and the timing trace as captured.
C7_ExceptionsBecomeErrorResponses ==
    \A a \in Alerts :
        /\ pc[a] \in {"idle", "json", "validate", "execute", "leverage_call", "sizing",
                      "account_call", "balance_call", "ticker_call", "capital_qty",
                      "normalize", "order_call", "executed", "ignored", "store_signal",
                      "respond", "except", "done"} \cup WaitPositions
        /\ exc[a] # "" =>
              /\ pc[a] \in {"except", "done"}
              /\ pc[a] = "done" =>
                    /\ response[a].status = "error"
                    /\ response[a].message = <<exc[a]>>
                    /\ response[a].result = <<>>
                    /\ response[a].timing = timing[a]
                    /\ response[a].timing.received # NoneN
        /\ (pc[a] = "done" /\ exc[a] = "") => response[a].status \in {"success", "ignored"}

\* C7 witness: the response builder raised after the filter and the recording had
\* run, and the error response carries the timestamps captured until then.
C7_Witness ==
    \E a \in Alerts :
        /\ pc[a] = "done" /\ exc[a] # ""
        /\ response[a].status = "error"
        /\ response[a].timing.processed # NoneN
        /\ \E i \in DOMAIN signals : signals[i].alert = a

\* C8: whenever a quantity q >= 0 has been floored to a step s > 0, the result is a
\* multiple of s, at most q, more than q - s, and positive when q >= s.
C8_FloorToStepBounds ==
    \A a \in Alerts :
        LET p == trade[a].precision
        IN IsNum(p.quantity) =>
              LET q == p.quantity.v
                  st == Units(p.step)
                  n == p.applied_quantity.v
              IN /\ q >= 0 /\ st > 0
                 /\ IsNum(p.applied_quantity)
                 /\ n % st = 0
                 /\ n >= 0
                 /\ n <= q
                 /\ n > q - st
                 /\ q >= st => n > 0

\* C8 witness: a quantity that is no multiple of its step and not below it has been
\* floored to a positive multiple.
C8_Witness ==
    \E a \in Alerts :
        LET p == trade[a].precision
        IN /\ IsNum(p.quantity) /\ IsNum(p.applied_quantity)
           /\ p.quantity.v > Units(p.step)
           /\ p.quantity.v % Units(p.step) # 0
           /\ p.applied_quantity.v > 0
           /\ p.applied_quantity.v < p.quantity.v

\* Reading a fixed-point string back: its value in units and its decimal places.
IsDecimalString(s) ==
    /\ s # <<>>
    /\ \A i \in DOMAIN s : s[i] \in Range(Digits) \cup {"."}
    /\ Cardinality({i \in DOMAIN s : s[i] = "."}) <= 1
    /\ s[1] # "." /\ s[Len(s)] # "."
RECURSIVE DigitsValue(_)
DigitsValue(s) ==
    IF s = <<>> THEN 0
    ELSE DigitsValue(SubSeq(s, 1, Len(s) - 1)) * 10 + (IndexOf(s[Len(s)], Digits) - 1)
PlacesOf(s) == IF Contains(s, ".") THEN Len(AfterFirst(s, ".")) ELSE 0
UnitsOf(s) ==
    LET whole == IF Contains(s, ".") THEN BeforeFirst(s, ".") ELSE s
        frac == IF Contains(s, ".") THEN AfterFirst(s, ".") ELSE <<>>
    IN DigitsValue(whole) * 10 ^ UnitExp
       + (IF Len(frac) <= UnitExp
          THEN DigitsValue(frac) * 10 ^ (UnitExp - Len(frac))
          ELSE DigitsValue(frac) \div 10 ^ (Len(frac) - UnitExp))

\* C9: every order-submit call carries a quantity string that reads as a number
\* greater than zero, a multiple of the step resolved at submission, with exactly
\* the step's decimal places; and a quantity that floors to zero or less ends in
\* the zero-quantity failure with no order-submit call.
C9_SubmittedQuantityValid ==
    \A a \in Alerts :
        LET p == trade[a].precision
        IN /\ \A i \in CallsOf(a, "order") :
                 /\ IsDecimalString(calls[a][i].quantity)
                 /\ UnitsOf(calls[a][i].quantity) > 0
                 /\ UnitsOf(calls[a][i].quantity) % Units(p.step) = 0
                 /\ PlacesOf(calls[a][i].quantity) = DecimalPlaces(p.step)
           /\ (IsNum(p.applied_quantity) /\ p.applied_quantity.v <= 0) =>
                 /\ CallsOf(a, "order") = {}
                 /\ Failed(a)
                 /\ execution_result[a][1].error = "Calculated quantity is zero"

\* C10: a leverage-set call carries an integer in 1..125: 125 for a configured
\* leverage of 125 or more, 1 for one of at most 1.5, else an integer within 0.5 of
\* it; and with the leverage unset or 0 there is no leverage-set call, no applied
\* leverage, and no leverage failure.
C10_LeverageClamped ==
    \A a \in Alerts :
        LET lev == PreferenceData(a).leverage
        IN /\ \A i \in CallsOf(a, "leverage") :
                 /\ IsNum(lev)
                 /\ calls[a][i].leverage \in 1..125
                 /\ lev.v >= 1250 => calls[a][i].leverage = 125
                 /\ lev.v <= 15 => calls[a][i].leverage = 1
                 /\ (lev.v > 15 /\ lev.v < 1250) =>
                       /\ 10 * calls[a][i].leverage - lev.v <= 5
                       /\ lev.v - 10 * calls[a][i].leverage <= 5
           /\ (lev = NoneN \/ lev = Num(0)) =>
                 /\ CallsOf(a, "leverage") = {}
                 /\ trade[a].applied_leverage = NoneN
                 /\ data[a].applied_leverage = NoneN
                 /\ Failed(a) => execution_result[a][1].error # "Failed to set leverage"

\* C10 witness: a configured leverage of 130 was sent as 125, and the order followed.
C10_Witness ==
    \E a \in Alerts :
        /\ PreferenceData(a).leverage = Num(1300)
        /\ \E i \in CallsOf(a, "leverage") : calls[a][i].leverage = 125 /\ calls[a][i].ok
        /\ \E i \in CallsOf(a, "order") : calls[a][i].ok

\* The reasons the direction check can give.
DirectionReasons ==
    {"Signal missing action value",
     "Blocked short signal: long-only mode enabled",
     "Blocked long signal: short-only mode enabled"}
\* The direction reasons in the message the filter produced for alert a.
DirectionReasonsGiven(a) ==
    {validation[a].ignore_message[i] : i \in DOMAIN validation[a].ignore_message}
        \cap DirectionReasons

\* C11: for every alert the filter decided on with a preference loaded: long-only
\* rejects a sell and passes a buy, short-only rejects a buy and passes a sell
\* (actions compared case-insensitively), long-short or an unset mode passes every
\* alert, and a missing action under a restrictive mode is rejected; whatever the
\* alert's other fields are.
C11_DirectionCheck ==
    \A a \in Alerts :
        (Decided(a) /\ validation[a].preference # <<>>) =>
            LET mode == validation[a].preference[1].direction_mode
                action == Received(a).action
                isBuy == IsStr(action) /\ Lower(action) = BUY
                isSell == IsStr(action) /\ Lower(action) = SELL
                given == DirectionReasonsGiven(a)
            IN /\ (mode = "allow_long_only" /\ isSell) =>
                     /\ given = {"Blocked short signal: long-only mode enabled"}
                     /\ ~validation[a].allow_execution
               /\ (mode = "allow_long_only" /\ isBuy) => given = {}
               /\ (mode = "allow_short_only" /\ isBuy) =>
                     /\ given = {"Blocked long signal: short-only mode enabled"}
                     /\ ~validation[a].allow_execution
               /\ (mode = "allow_short_only" /\ isSell) => given = {}
               /\ mode \in {"", "allow_long_short"} => given = {}
               /\ (mode \in {"allow_long_only", "allow_short_only"} /\ ~Truthy(action)) =>
                     /\ given = {"Signal missing action value"}
                     /\ ~validation[a].allow_execution

\* C11 witness: a SELL alert whose strategy and product match was rejected by the
\* direction check alone under long-only, and answered.
C11_Witness ==
    \E a \in Alerts :
        /\ pc[a] = "done" /\ Decided(a) /\ client
        /\ validation[a].preference # <<>>
        /\ validation[a].preference[1].direction_mode = "allow_long_only"
        /\ Received(a).action = <<"S","E","L","L">>
        /\ validation[a].ignore_message = <<"Blocked short signal: long-only mode enabled">>
        /\ response[a].status = "ignored"

\* C12: normalising a symbol twice gives what normalising it once gives: the base
\* asset reported in an "ignored" response (signal_product, the normalised alert
\* symbol) is left as it is by _normalise_symbol.
C12_NormaliseIdempotent ==
    \A a \in Alerts :
        (pc[a] = "done" /\ response[a].status = "ignored") =>
            _normalise_symbol(response[a].signal_product) = response[a].signal_product

\* The sizer has chosen the raw quantity of alert a and not yet normalised it.
RawQuantityChosen(a) == pc[a] = "normalize" /\ trade[a].phase = "sizing"
\* A capital percent above zero is configured, and the balance and a positive
\* reference price were both obtained.
CapitalSizingInputs(a) ==
    /\ IsNum(trade[a].percent_value) /\ trade[a].percent_value.v > 0
    /\ IsNum(trade[a].available_balance)
    /\ IsNum(trade[a].price_for_sizing) /\ trade[a].price_for_sizing.v > 0

\* C13: with a capital percent above zero and both balance and price at hand, the
\* raw quantity is max(|alert quantity|, balance * percent / 100 / price), and so
\* never below the alert's own quantity.
C13_CapitalFloor ==
    \A a \in Alerts :
        (RawQuantityChosen(a) /\ CapitalSizingInputs(a)) =>
            LET t == trade[a]
                q == Received(a).quantity
                computed == (t.available_balance.v * t.percent_value.v * 10 ^ UnitExp)
                                \div (100 * t.price_for_sizing.v)
            IN IF q.k = "inf" THEN t.applied_quantity = InfN
               ELSE /\ IsNum(q) /\ IsNum(t.applied_quantity)
                    /\ t.applied_quantity.v =
                          (IF Abs(q.v) >= computed THEN Abs(q.v) ELSE computed)
                    /\ t.applied_quantity.v >= Abs(q.v)

\* C13 witness: for an alert with a negative quantity, the capital-derived quantity
\* is larger than the alert's absolute quantity and is the one chosen.
C13_Witness ==
    \E a \in Alerts :
        /\ RawQuantityChosen(a) /\ CapitalSizingInputs(a)
        /\ IsNum(trade[a].applied_quantity) /\ trade[a].base_quantity.v > 0
        /\ trade[a].applied_quantity.v > trade[a].base_quantity.v
        /\ Received(a).quantity.v < 0

\* C14: every order-submit call is a MARKET order, on the buy side exactly when the
\* alert's action is buy and on the sell side exactly when it is sell (compared
\* case-insensitively); so none is submitted for an action that is neither.
C14_OrderSideMatchesAction ==
    \A a \in Alerts :
        \A i \in CallsOf(a, "order") :
            LET action == Received(a).action
            IN /\ calls[a][i].type = "MARKET"
               /\ IsStr(action)
               /\ calls[a][i].side = "BUY" <=> Lower(action) = BUY
               /\ calls[a][i].side = "SELL" <=> Lower(action) = SELL

\* The populated timestamps of a timing trace, in pipeline order.
PopulatedStamps(t) ==
    SelectSeq(<<t.signal_sent, t.received, t.processed, t.sent_to_binance, t.executed>>,
              LAMBDA x : x # NoneN)
NonDecreasing(stamps) ==
    \A i, j \in DOMAIN stamps : i < j => stamps[i].v <= stamps[j].v

\* C15: the populated timestamps of every timing trace returned in a response or
\* stored with an outcome record are non-decreasing in the order signal_sent,
\* received, processed, sent_to_binance, executed.
C15_TimingNonDecreasing ==
    /\ \A a \in Alerts :
          pc[a] = "done" => NonDecreasing(PopulatedStamps(response[a].timing))
    /\ \A i \in DOMAIN executions : NonDecreasing(PopulatedStamps(executions[i].timing))

\* A write of the outcome record or of the signal record of alert a has failed.
WriteFailed(a) ==
    \/ \E i \in DOMAIN executions : executions[i].alert = a /\ ~executions[i].committed
    \/ \E i \in DOMAIN signals : signals[i].alert = a /\ ~signals[i].committed
\* What the handler answers when every write succeeds: the response built from the
\* filter's decision and the execution result, or the error response of an
\* exception raised outside the store functions.
ResponseWithoutWriteFailure(a) ==
    LET r == _build_response(validation[a].allow_execution, execution_result[a],
                             validation[a].ignore_message, data[a], timing[a])
    IN IF exc[a] # "" THEN [status |-> "error", message |-> <<exc[a]>>, result |-> <<>>]
       ELSE [status |-> r.status, message |-> r.message, result |-> r.result]

\* C16: after a failed write of the outcome or the signal record the handler goes
\* on as after a successful one: it is not in its except clause on account of the
\* write, and the response it returns has the status (and message and result) it
\* has when the write succeeds.
C16_WriteFailureSwallowed ==
    \A a \in Alerts :
        WriteFailed(a) =>
            /\ pc[a] \in {"store_signal", "respond", "except", "done"}
            /\ pc[a] = "except" => exc[a] # ""
            /\ pc[a] = "done" =>
                  /\ response[a].status = ResponseWithoutWriteFailure(a).status
                  /\ response[a].message = ResponseWithoutWriteFailure(a).message
                  /\ response[a].result = ResponseWithoutWriteFailure(a).result

\* C16 witness: an order was accepted, both writes failed, and the response is the
\* "Trade executed" one.
C16_Witness ==
    \E a \in Alerts :
        /\ pc[a] = "done"
        /\ \E i \in DOMAIN executions : executions[i].alert = a /\ ~executions[i].committed
        /\ \E i \in DOMAIN signals : signals[i].alert = a /\ ~signals[i].committed
        /\ response[a].status = "success"
        /\ response[a].result # <<>> /\ response[a].result[1].success

\* C17: the stages run in the order sized, normalised, leveraged, submitted: when
\* a leverage-set call has been issued for an alert, its quantity has been sized
\* and normalised to a positive multiple of the step before; and a request that
\* failed with a zero quantity has issued no leverage-set call.
C17_LeverageAfterNormalisation ==
    \A a \in Alerts :
        /\ CallsOf(a, "leverage") # {} =>
              /\ trade[a].phase = "order"
              /\ IsNum(trade[a].precision.applied_quantity)
              /\ trade[a].precision.applied_quantity.v > 0
        /\ (Failed(a) /\ execution_result[a][1].error = "Calculated quantity is zero") =>
              CallsOf(a, "leverage") = {}

\* The store_signal calls made for alert a.
SignalRecords(a) == {i \in DOMAIN signals : signals[i].alert = a}

\* C18: an alert has one signal record once its handler is past the execute-or-
\* ignore step, whether it was executed, failed in execution or was denied, and
\* none before; when the record is written the outcome of that step is settled;
\* an alert whose handling raised before the filter returned has none.
C18_SignalRecordedOnce ==
    \A a \in Alerts :
        /\ Cardinality(SignalRecords(a)) <= 1
        /\ (Decided(a) /\ pc[a] \in {"respond", "except", "done"}) <=>
              Cardinality(SignalRecords(a)) = 1
        /\ SignalRecords(a) # {} =>
              /\ validation[a].allow_execution =>
                    /\ execution_result[a] # <<>>
                    /\ timing[a].executed # NoneN
                    /\ OutcomeRecords(a) # {}
              /\ (~validation[a].allow_execution /\ validation[a].ignore_message # <<>>) =>
                    \E r \in OutcomeRecords(a) : executions[r].status = "ignored"
        /\ (~Decided(a) /\ pc[a] = "done") =>
              /\ exc[a] # ""
              /\ SignalRecords(a) = {}

\* C18 witness: a denied alert and its one signal record, written after the
\* "ignored" outcome record.
C18_Witness ==
    \E a \in Alerts :
        /\ pc[a] = "done" /\ response[a].status = "ignored"
        /\ Cardinality(SignalRecords(a)) = 1
        /\ \E r \in OutcomeRecords(a) : executions[r].status = "ignored"

\* The check a denial reason comes from: 1 strategy, 2 direction, 3 product.
ReasonRank(m) ==
    IF m \in DirectionReasons THEN 2
    ELSE IF m \in {"Signal missing tradable symbol", "Product mismatch"} THEN 3
    ELSE 1
\* A message is one or more reasons in the order strategy, direction, product,
\* with "; " between neighbours.
IsJoinedReasons(message) ==
    /\ message # <<>>
    /\ Len(message) % 2 = 1
    /\ \A i \in DOMAIN message : (i % 2 = 0) <=> (message[i] = "; ")
    /\ \A i, j \in DOMAIN message :
          (i % 2 = 1 /\ j % 2 = 1 /\ i < j) => ReasonRank(message[i]) < ReasonRank(message[j])

\* C19: an alert the filter decided not to allow is answered with status "ignored"
\* and, as message, the reasons of the strategy, direction and product checks
\* joined with "; " in that order; never with "success" or "error".
C19_DeniedGetsIgnored ==
    \A a \in Alerts :
        (pc[a] = "done" /\ Decided(a) /\ ~validation[a].allow_execution) =>
            /\ response[a].status = "ignored"
            /\ response[a].message = validation[a].ignore_message
            /\ IsJoinedReasons(response[a].message)

\* C20: with a capital percent above zero and the balance or the price missing
\* after the lookups, sizing does not fail and the raw quantity chosen for the
\* order is the alert's quantity times percent / 100.
C20_FallbackQuantity ==
    \A a \in Alerts :
        (/\ RawQuantityChosen(a)
         /\ IsNum(trade[a].percent_value) /\ trade[a].percent_value.v > 0
         /\ \/ trade[a].available_balance = NoneN
            \/ trade[a].price_for_sizing = NoneN) =>
            /\ ~Failed(a)
            /\ IsNum(trade[a].base_quantity) =>
                  trade[a].applied_quantity =
                      Num((trade[a].base_quantity.v * trade[a].percent_value.v) \div 100)

\* C21: with no capital percent configured, or one that is zero or negative, no
\* account, balance or ticker call is issued for the alert, and the raw quantity
\* the sizer chooses is the absolute value of the alert's quantity.
C21_NoCapitalNoLookup ==
    \A a \in Alerts :
        LET capital == PreferenceData(a).capital_allocation_percent
        IN (capital = NoneN \/ (IsNum(capital) /\ capital.v <= 0)) =>
              /\ CallsOf(a, "account") \cup CallsOf(a, "balance") \cup CallsOf(a, "ticker") = {}
              /\ RawQuantityChosen(a) =>
                    /\ Floatable(Received(a).quantity)
                    /\ trade[a].applied_quantity =
                          (IF Received(a).quantity.k = "inf" THEN InfN
                           ELSE Num(Abs(Received(a).quantity.v)))

\* C21 witness: under a negative capital percent an alert with a negative quantity
\* was sized to its absolute value and its order was accepted without any lookup.
C21_Witness ==
    \E a \in Alerts :
        /\ IsNum(PreferenceData(a).capital_allocation_percent)
        /\ PreferenceData(a).capital_allocation_percent.v < 0
        /\ IsNum(Received(a).quantity) /\ Received(a).quantity.v < 0
        /\ trade[a].base_quantity = Num(0 - Received(a).quantity.v)
        /\ \E i \in CallsOf(a, "order") : calls[a][i].ok
        /\ CallsOf(a, "balance") \cup CallsOf(a, "ticker") = {}

\* The order-submit calls of alert a that failed, and why.
FailedOrders(a) == {i \in CallsOf(a, "order") : ~calls[a][i].ok}

\* C22: a failed order-submit call gives a failure outcome (execute_trade returns
\* an error, no exception leaves it, the record written is "failed"), and the
\* error of an order the exchange rejected differs in kind from the error of an
\* order lost in transport.
C22_FailureKindsDistinct ==
    /\ \A a \in Alerts :
          (FailedOrders(a) # {} /\ ~InCall(a)) =>
              /\ Failed(a)
              /\ exc[a] = ""
              /\ \A r \in OutcomeRecords(a) : executions[r].status = "failed"
    /\ \A a, b \in Alerts :
          (/\ ~InCall(a) /\ ~InCall(b)
           /\ \E i \in FailedOrders(a) : calls[a][i].cause = "rejected"
           /\ \E j \in FailedOrders(b) : calls[b][j].cause = "transport") =>
              execution_result[a][1].error # execution_result[b][1].error

\* _apply_quantity_precision has resolved a step for alert a.
StepResolved(a) == trade[a].precision # NoPrecision

\* C23: for a symbol of the static table no instrument-metadata call is issued and
\* the table's step is used; for any other symbol the step is resolved by a
\* metadata call: the LOT_SIZE step it lists, or the default 0.001 when the call
\* failed or lists none, and then the request goes on (it does not fail over the
\* lookup).
C23_StepResolution ==
    \A a \in Alerts :
        trade[a].phase # "none" =>
            LET listed == InStepTable(trade[a].symbol)
                lookups == CallsOf(a, "exchange_info")
            IN /\ listed =>
                    /\ lookups = {}
                    /\ StepResolved(a) => trade[a].precision.step = TableStep(trade[a].symbol)
               /\ (StepResolved(a) /\ ~listed) =>
                    /\ lookups # {}
                    /\ LET last == calls[a][SetMax(lookups)]
                       IN IF last.ok /\ last.reported # <<>>
                          THEN trade[a].precision.step = last.reported[1]
                          ELSE /\ trade[a].precision.step = Dec(1, -3)
                               /\ Failed(a) => execution_result[a][1].error
                                                   \in {"Calculated quantity is zero",
                                                        OrderError("rejected"),
                                                        OrderError("transport")}

\* C23 witness: the metadata call for an unlisted symbol failed, the default step
\* was used, and the order was accepted.
C23_Witness ==
    \E a \in Alerts :
        /\ ~InStepTable(trade[a].symbol) /\ StepResolved(a)
        /\ \A i \in CallsOf(a, "exchange_info") : ~calls[a][i].ok
        /\ trade[a].precision.step = Dec(1, -3)
        /\ \E i \in CallsOf(a, "order") : calls[a][i].ok /\ calls[a][i].quantity = <<"0",".","0","0","1">>

\* Alert a has an exchange request outstanding and the body of alert b has arrived.
CallOutstandingBeside(a, b) == a # b /\ InCall(a) /\ pc[b] = "json"

\* C24: exchange calls of different alerts may overlap: while an exchange call of
\* one alert is outstanding, the handler of another alert whose body has arrived
\* can go on towards its own exchange calls.
C24_CallsOverlapAcrossAlerts ==
    \A a, b \in Alerts : CallOutstandingBeside(a, b) => ENABLED ParseJson(b)

\* C25: the alert is immutable once received: after the body is parsed no stage
\* changes a field of the alert data, and the symbol and quantity of every outcome
\* record are the ones the alert arrived with.
C25_AlertImmutable ==
    \A a \in Alerts :
        /\ data[a] \in {EmptyData, Received(a)}
        /\ \A i \in OutcomeRecords(a) :
              /\ executions[i].symbol = Received(a).symbol
              /\ executions[i].quantity = Received(a).quantity

\* C26: the pipeline never mutates the preference store: no step of handling an
\* alert changes the stored preferences, also when the user has no preference
\* record yet.
C26_PreferenceStoreUntouched == [][preference_store' = preference_store]_vars

\* A symbol without its exchange prefix (the text up to and including the first
\* colon) and its contract suffix (the text from the first dot on).
Undecorated(symbol) ==
    LET tail == IF Contains(symbol, ":") THEN AfterFirst(symbol, ":") ELSE symbol
    IN IF Contains(tail, ".") THEN BeforeFirst(tail, ".") ELSE tail

\* C27: the symbol of every leverage-set, ticker and order-submit call of an alert
\* is the alert's symbol with its exchange prefix and its contract suffix stripped;
\* a symbol is never sent to the exchange with its decoration attached.
C27_ExchangeSymbolUndecorated ==
    \A a \in Alerts :
        \A i \in DOMAIN calls[a] :
            (calls[a][i].op \in {"leverage", "ticker", "order"} /\ IsStr(Received(a).symbol)) =>
                calls[a][i].symbol = Undecorated(Received(a).symbol)

\* Alert a has set its leverage on the exchange and its order has not returned yet.
LeverageHeld(a) ==
    /\ \E i \in CallsOf(a, "leverage") : calls[a][i].ok
    /\ CallsOf(a, "order") = {}
    /\ execution_result[a] = <<>>

\* C28: between the successful leverage-set call of one alert and the return of
\* that alert's order-submit call, no leverage-set call of another alert is sent
\* or answered.
C28_NoForeignLeverageSet ==
    [][\A a, b \in Alerts :
          (a # b /\ LeverageHeld(a)) =>
              /\ pc'[b] = "leverage_wait" => pc[b] = "leverage_wait"
              /\ \A i \in DOMAIN calls'[b] :
                    calls'[b][i].op = "leverage" => i \in DOMAIN calls[b]]_vars

\* C28 witness: two alerts of one process have both set their leverage and both
\* had their orders accepted.
C28_Witness ==
    /\ Cardinality(Alerts) = 2
    /\ \A a \in Alerts :
          /\ \E i \in CallsOf(a, "leverage") : calls[a][i].ok
          /\ \E i \in CallsOf(a, "order") : calls[a][i].ok

\* _execute_order has applied the precision a second time for alert a.
SecondApplicationDone(a) ==
    /\ trade[a].phase = "order"
    /\ pc[a] \notin {"normalize", "exchange_info_wait"}

\* C29: the second application of the precision, at submission, changes nothing:
\* it returns the quantity it was given, and the quantity of every order-submit
\* call equals the quantity written back into the alert data and the quantity of
\* the alert's outcome record, also for symbols whose step comes from a metadata
\* call.
C29_SecondNormalisationNeutral ==
    \A a \in Alerts :
        /\ SecondApplicationDone(a) =>
              trade[a].precision.applied_quantity = trade[a].precision.quantity
        /\ \A i \in CallsOf(a, "order") :
              IsDecimalString(calls[a][i].quantity) =>
                  /\ data[a].quantity = Num(UnitsOf(calls[a][i].quantity))
                  /\ \A j \in OutcomeRecords(a) :
                        executions[j].quantity = Num(UnitsOf(calls[a][i].quantity))

\* The filter let alert a through and the alert has no action, or a quantity that
\* is missing or not numeric.
AllowedButIncomplete(a) ==
    /\ Decided(a) /\ validation[a].allow_execution
    /\ \/ ~Truthy(Received(a).action)
       \/ ~Floatable(Received(a).quantity)

\* C30: an allowed alert without an action, or with a missing or non-numeric
\* quantity, fails before any exchange call: it has no leverage-set, balance,
\* ticker, metadata or order-submit call, execute_trade returns an error, and the
\* one outcome record written for it has status "failed".
C30_IncompleteAlertFailsEarly ==
    \A a \in Alerts :
        AllowedButIncomplete(a) =>
            /\ calls[a] = <<>>
            /\ ~InCall(a) /\ pc[a] \notin CallPositions
            /\ pc[a] \in {"execute", "executed", "store_signal", "respond", "done"}
            /\ pc[a] # "execute" => Failed(a)
            /\ pc[a] \in {"execute", "executed"} => OutcomeRecords(a) = {}
            /\ pc[a] \in {"store_signal", "respond", "done"} =>
                  /\ Cardinality(OutcomeRecords(a)) = 1
                  /\ \A i \in OutcomeRecords(a) : executions[i].status = "failed"

\* C30 witness: an alert with a non-numeric quantity, under a preference with a
\* leverage to set, was answered with one "failed" record and no exchange call.
C30_Witness ==
    \E a \in Alerts :
        /\ AllowedButIncomplete(a) /\ Truthy(Received(a).action)
        /\ LeverageConfigured(PreferenceData(a))
        /\ pc[a] = "done" /\ calls[a] = <<>>
        /\ \E i \in OutcomeRecords(a) :
              executions[i].status = "failed"
              /\ executions[i].order_id = <<"Invalid quantity">>

====
